---- MODULE Spec2Model ----
(***************************************************************************)
(* Model of src/server.js: an Express server that relays e-mails through a *)
(* nodemailer transport behind a per-client rate limiter.                  *)
(*                                                                         *)
(* A request occupies a slot.  A slot record holds the request, the        *)
(* handler's position (pc), the handler's local variables (the for-of      *)
(* cursor i, results), the log of the calls made to transporter.sendMail   *)
(* on behalf of the request, the items after which the inter-item timer    *)
(* was awaited (delays), and the response written to res.                  *)
(* Handlers run synchronously up to their next await; each await           *)
(* (transporter.sendMail, the setTimeout promise) is settled by an action  *)
(* of its own, so that handlers of different slots interleave exactly at   *)
(* the awaits, as on the Node event loop.                                  *)
(***************************************************************************)
EXTENDS Integers, Sequences, FiniteSets, TLC

VARIABLES
    transporter,   \* TRUE iff `transporter` was created at startup (line 93-115)
    rateLimiter,   \* client key -> points consumed in the key's current window
    slot           \* request slot -> request in flight / answered

vars == <<transporter, rateLimiter, slot>>

-----------------------------------------------------------------------------
(* Program constants and bounds *)

points == 100        \* RateLimiterMemory points (quota per window)

MaxBatch == 2        \* longest emails array drawn as input
MaxExcess == 2       \* requests a client makes beyond the quota in one window

AllSlots == {1, 2}
AllClients == {"ip1", "ip2"}

-----------------------------------------------------------------------------
(* JavaScript values *)

Undef == "<undefined>"          \* a property that is absent
NonString == "<number 5>"       \* a truthy value that is not a string
None == <<>>                    \* an optional value that is absent
Some(v) == <<v>>                \* an optional value that is present

\* !v is false: every value but undefined and "" (of the values drawn here)
Truthy(v) == v /= Undef /\ v /= ""
\* v has a .replace method
IsString(v) == v /= Undef /\ v /= NonString

\* index || -1 : the index, unless it is absent or falsy (0)
IndexOrMinus1(index) == IF index = None \/ index = Some(0) THEN -1 ELSE index[1]

-----------------------------------------------------------------------------
(* Inputs *)

EmailData(kind, to_email, subject, message, index) ==
    [kind |-> kind, to_email |-> to_email, subject |-> subject,
     message |-> message, index |-> index]

\* Elements of an emails array: objects whose fields are present, empty,
\* absent or of another type, the JSON value null, and a JSON number (a
\* primitive destructures to absent fields).
Items ==
    { EmailData("object", t, s, m, ix) :
        t \in {"", "a@x.com"}, s \in {Undef, "S"}, m \in {"", "M", NonString},
        ix \in {None, Some(0), Some(1)} }
    \cup { EmailData("null", Undef, Undef, Undef, None),
           EmailData("number", Undef, Undef, Undef, None) }

Arrays == UNION { [1..n -> Items] : n \in 0..MaxBatch }

Body(route, to_email, subject, message, emailsKind, emails) ==
    [route |-> route, to_email |-> to_email, subject |-> subject,
     message |-> message, emailsKind |-> emailsKind, emails |-> emails]

NoBody == Body("none", Undef, Undef, Undef, "absent", <<>>)

HealthRequests == { Body("health", Undef, Undef, Undef, "absent", <<>>) }

SendEmailRequests ==
    { Body("send-email", t, s, m, "absent", <<>>) :
        t \in {Undef, "a@x.com"}, s \in {"", "S"}, m \in {Undef, "M", NonString} }

SendBatchRequests ==
    { Body("send-batch", Undef, Undef, Undef, k, <<>>) : k \in {"absent", "nonarray"} }
    \cup { Body("send-batch", Undef, Undef, Undef, "array", a) : a \in Arrays }

Requests == HealthRequests \cup SendEmailRequests \cup SendBatchRequests

\* What transporter.sendMail settles with: info.messageId or error.message
MessageIds == {"<id1>", "<id2>"}
Errors == {"ECONNECTION", "EAUTH"}
Outcomes == { [ok |-> TRUE, value |-> m] : m \in MessageIds }
            \cup { [ok |-> FALSE, value |-> e] : e \in Errors }

-----------------------------------------------------------------------------
(* Responses *)

Response(status, success, message, messageId, results, emailConfigured) ==
    [status |-> status, success |-> success, message |-> message,
     messageId |-> messageId, results |-> results,
     emailConfigured |-> emailConfigured]

NoResponse == Response(0, FALSE, Undef, Undef, None, None)

Json(status, success, message) ==
    Response(status, success, message, Undef, None, None)

\* error.message of the TypeError thrown by message.replace on a non-string
ReplaceError == "message.replace is not a function"
\* error.message of the TypeError thrown by reading emailData.to_email of null
NullError == "Cannot read properties of null (reading 'to_email')"

Result(index, success, message, messageId) ==
    [index |-> index, success |-> success, message |-> message,
     messageId |-> messageId]

-----------------------------------------------------------------------------
(* Slots *)

IdleSlot ==
    [pc |-> "idle", req |-> NoBody, rejected |-> FALSE, i |-> 0,
     results |-> <<>>, calls |-> <<>>, delays |-> <<>>,
     response |-> NoResponse]

\* res.status(..).json(..): the response is written and the handler returns
Respond(sl, response) == [sl EXCEPT !.pc = "responded", !.response = response]

\* transporter.sendMail(mailOptions) is called for item `item` (0: single send)
Call(item, to) == [item |-> item, to |-> to, settled |-> "pending", value |-> Undef]

-----------------------------------------------------------------------------
(* Rate limiter (RateLimiterMemory, fixed window per key) *)

\* rateLimiter.consume(key): one more point is consumed in the key's window
consume(key) == [rateLimiter EXCEPT ![key] = @ + 1]

\* the promise of consume rejects when the consumed points exceed the quota
ConsumeRejects(consumedPoints) == consumedPoints > points

-----------------------------------------------------------------------------
(* GET /api/health *)

\* (mutant) the health check reports the e-mail service as configured always
HealthHandlerAlwaysConfigured(sl) ==
    Respond(sl, Response(200, TRUE, "Payment Slip Backend is running on Render",
                         Undef, None, Some(TRUE)))

HealthHandler(sl) ==
    Respond(sl, Response(200, TRUE, "Payment Slip Backend is running on Render",
                         Undef, None, Some(transporter)))

-----------------------------------------------------------------------------
(* POST /api/send-email *)

\* (mutant) && for ||: only a request lacking all three fields is refused
MissingFieldsAll(to_email, subject, message) ==
    ~Truthy(to_email) /\ ~Truthy(subject) /\ ~Truthy(message)

\* !to_email || !subject || !message
MissingFields(to_email, subject, message) ==
    ~Truthy(to_email) \/ ~Truthy(subject) \/ ~Truthy(message)

NotConfigured(sl) ==
    Respond(sl, Json(500, FALSE, "Email service is not configured on the server"))

\* (mutant) the catch answers without the error's text
SendEmailCatchGeneric(sl, errorMessage) ==
    Respond(sl, Json(500, FALSE, "Failed to send email"))

\* catch (error) of the single-send handler
SendEmailCatch(sl, errorMessage) ==
    Respond(sl, Json(500, FALSE, "Failed to send email: " \o errorMessage))

\* (mutant) the transporter check comes before the validation of the fields
SendEmailHandlerConfigFirst(sl) ==
    LET r == sl.req IN
    IF ~transporter THEN NotConfigured(sl)
    ELSE IF MissingFields(r.to_email, r.subject, r.message)
    THEN Respond(sl, Json(400, FALSE,
                 "Missing required fields: to_email, subject, or message"))
    ELSE IF ~IsString(r.message) THEN SendEmailCatch(sl, ReplaceError)
    ELSE [sl EXCEPT !.pc = "sendMail",
                    !.calls = Append(@, Call(0, r.to_email))]

\* the handler up to its await of transporter.sendMail
SendEmailHandler(sl) ==
    LET r == sl.req IN
    IF MissingFields(r.to_email, r.subject, r.message)
    THEN Respond(sl, Json(400, FALSE,
                 "Missing required fields: to_email, subject, or message"))
    ELSE IF ~transporter THEN NotConfigured(sl)
    ELSE IF ~IsString(r.message) THEN SendEmailCatch(sl, ReplaceError)
    ELSE [sl EXCEPT !.pc = "sendMail",
                    !.calls = Append(@, Call(0, r.to_email))]

\* the last call to transporter.sendMail settles with outcome o
Settle(calls, o) ==
    [calls EXCEPT ![Len(calls)] =
        [@ EXCEPT !.settled = IF o.ok THEN "ok" ELSE "err", !.value = o.value]]

\* the handler after its await of transporter.sendMail
SendEmailSettled(sl, o) ==
    LET sl1 == [sl EXCEPT !.calls = Settle(@, o)] IN
    IF o.ok
    THEN Respond(sl1, Response(200, TRUE, "Email sent successfully",
                               o.value, None, None))
    ELSE SendEmailCatch(sl1, o.value)

-----------------------------------------------------------------------------
(* POST /api/send-batch *)

\* (mutant) the validation looks at to_email alone
ItemMissingFieldsToOnly(emailData) == ~Truthy(emailData.to_email)

\* !to_email || !subject || !message of the destructured item
ItemMissingFields(emailData) ==
    ~Truthy(emailData.to_email) \/ ~Truthy(emailData.subject)
        \/ ~Truthy(emailData.message)

\* results.push of the validation failure, then continue
PushMissing(sl, emailData) ==
    [sl EXCEPT !.results = Append(@, Result(IndexOrMinus1(emailData.index),
                                  FALSE, "Missing required fields", Undef))]

\* results.push after a resolved sendMail
PushSuccess(sl, emailData, messageId) ==
    [sl EXCEPT !.results = Append(@, Result(IndexOrMinus1(emailData.index),
                                  TRUE, "Email sent successfully", messageId))]

\* results.push of the inner catch (emailData is not null here)
PushFailure(sl, emailData, errorMessage) ==
    [sl EXCEPT !.results = Append(@, Result(IndexOrMinus1(emailData.index),
                                  FALSE, "Failed to send email: " \o errorMessage,
                                  Undef))]

\* catch (error) of the batch handler
SendBatchCatch(sl, errorMessage) ==
    Respond(sl, Json(500, FALSE, "Failed to process batch emails: " \o errorMessage))

\* (mutant) the overall success is the conjunction of the items' successes
BatchResponseAllOk(sl) ==
    Respond(sl, Response(200, \A j \in 1..Len(sl.results) : sl.results[j].success,
                         "Batch email processing completed",
                         Undef, Some(sl.results), None))

\* res.json after the loop
BatchResponse(sl) ==
    Respond(sl, Response(200, TRUE, "Batch email processing completed",
                         Undef, Some(sl.results), None))

\* (mutant) sendMail is not awaited: the loop calls it and goes on to the
\* next item at once
RECURSIVE BatchLoopNoAwait(_)
BatchLoopNoAwait(sl) ==
    LET emails == sl.req.emails IN
    IF sl.i > Len(emails)
    THEN IF sl.calls = <<>> \/ sl.calls[Len(sl.calls)].settled /= "pending"
         THEN BatchResponse(sl)
         ELSE [sl EXCEPT !.pc = "batchSendMail", !.i = sl.calls[Len(sl.calls)].item]
    ELSE LET emailData == emails[sl.i]
             next(sl1) == BatchLoopNoAwait([sl1 EXCEPT !.i = @ + 1])
         IN  IF emailData.kind = "null" THEN SendBatchCatch(sl, NullError)
             ELSE IF ~Truthy(emailData.to_email) \/ ~Truthy(emailData.subject)
                        \/ ~Truthy(emailData.message)
             THEN next(PushMissing(sl, emailData))
             ELSE IF ~IsString(emailData.message)
             THEN next(PushFailure(sl, emailData, ReplaceError))
             ELSE next([sl EXCEPT !.calls = Append(@, Call(sl.i, emailData.to_email))])

\* The for-of loop from item sl.i on, up to the next await or the response.
\* Destructuring null throws inside the inner try; the inner catch then reads
\* emailData.to_email of null and throws again, which the outer catch answers.
RECURSIVE BatchLoop(_)
BatchLoop(sl) ==
    LET emails == sl.req.emails IN
    IF sl.i > Len(emails) THEN BatchResponse(sl)
    ELSE LET emailData == emails[sl.i]
             next(sl1) == BatchLoop([sl1 EXCEPT !.i = @ + 1])
         IN  IF emailData.kind = "null" THEN SendBatchCatch(sl, NullError)
             ELSE IF ItemMissingFields(emailData)
             THEN next(PushMissing(sl, emailData))
             ELSE IF ~IsString(emailData.message)
             THEN next(PushFailure(sl, emailData, ReplaceError))
             ELSE [sl EXCEPT !.pc = "batchSendMail",
                             !.calls = Append(@, Call(sl.i, emailData.to_email))]

\* (mutant) the batch handler does not look at transporter
SendBatchHandlerNoCheck(sl) ==
    IF sl.req.emailsKind /= "array"
    THEN Respond(sl, Json(400, FALSE, "Missing or invalid emails array"))
    ELSE BatchLoop([sl EXCEPT !.results = <<>>, !.i = 1])

\* the handler up to its first await
SendBatchHandler(sl) ==
    IF sl.req.emailsKind /= "array"
    THEN Respond(sl, Json(400, FALSE, "Missing or invalid emails array"))
    ELSE IF ~transporter THEN NotConfigured(sl)
    ELSE BatchLoop([sl EXCEPT !.results = <<>>, !.i = 1])

\* await new Promise(resolve => setTimeout(resolve, 300)) after item sl.i
AwaitDelay(sl) == [sl EXCEPT !.pc = "delay", !.delays = Append(@, sl.i)]

\* (mutant) no inner try/catch: a rejected send reaches the outer catch
BatchSendMailSettledAborts(sl, o) ==
    LET sl1 == [sl EXCEPT !.calls = Settle(@, o)]
        emailData == sl.req.emails[sl.i]
    IN  IF o.ok
        THEN AwaitDelay(PushSuccess(sl1, emailData, o.value))
        ELSE SendBatchCatch(sl1, o.value)

\* the loop after its await of transporter.sendMail: a resolved send pushes
\* its result and awaits the timer; a rejected send goes through the inner
\* catch straight on to the next item
BatchSendMailSettled(sl, o) ==
    LET sl1 == [sl EXCEPT !.calls = Settle(@, o)]
        emailData == sl.req.emails[sl.i]
    IN  IF o.ok
        THEN AwaitDelay(PushSuccess(sl1, emailData, o.value))
        ELSE BatchLoop([PushFailure(sl1, emailData, o.value) EXCEPT !.i = @ + 1])

\* the loop after its await of the 300 ms timer
BatchTimerFired(sl) == BatchLoop([sl EXCEPT !.i = @ + 1])

-----------------------------------------------------------------------------
(* Middleware and routing *)

Route(sl) ==
    CASE sl.req.route = "health" -> HealthHandler(sl)
      [] sl.req.route = "send-email" -> SendEmailHandler(sl)
      [] sl.req.route = "send-batch" -> SendBatchHandler(sl)

\* (mutant) the catch calls next() instead of answering: the limiter fails open
RateLimitMiddlewareFailOpen(sl, rejRes) == Route(sl)

\* (mutant) the catch answers 429 and then calls next() all the same
RateLimitMiddlewareFallsThrough(sl, rejRes) ==
    IF rejRes
    THEN LET h == Route([sl EXCEPT !.rejected = TRUE]) IN
         IF h.pc = "responded"
         THEN Respond(h, Json(429, FALSE, "Too many requests, please try again later."))
         ELSE [h EXCEPT !.response =
                  Json(429, FALSE, "Too many requests, please try again later.")]
    ELSE Route(sl)

\* the rate limiting middleware: next() when consume resolved, 429 when it
\* rejected
RateLimitMiddleware(sl, rejRes) ==
    IF rejRes
    THEN Respond([sl EXCEPT !.rejected = TRUE],
                 Json(429, FALSE, "Too many requests, please try again later."))
    ELSE Route(sl)

-----------------------------------------------------------------------------
(* Actions *)

Init ==
    /\ transporter \in BOOLEAN
    /\ rateLimiter = [k \in AllClients |-> 0]
    /\ slot = [s \in AllSlots |-> IdleSlot]

\* A request r of client k arrives (in a free slot s) and runs through the
\* middleware and its handler up to the handler's first await.
Request(s, k, r) ==
    /\ slot[s].pc \in {"idle", "responded"}
    /\ rateLimiter[k] < points + MaxExcess
    /\ rateLimiter' = consume(k)
    /\ slot' = [slot EXCEPT ![s] =
                  RateLimitMiddleware([IdleSlot EXCEPT !.req = r],
                                      ConsumeRejects(rateLimiter'[k]))]
    /\ UNCHANGED transporter

\* (mutant) results is one array shared by all handlers: what a batch pushes
\* when its sendMail settles also lands in the list of every other batch
SendMailSettlesSharedResults(s, o) ==
    /\ slot[s].pc \in {"sendMail", "batchSendMail"}
    /\ LET mine == IF slot[s].pc = "sendMail" THEN SendEmailSettled(slot[s], o)
                   ELSE BatchSendMailSettled(slot[s], o)
       IN  slot' = [t \in AllSlots |->
                      IF t = s THEN mine
                      ELSE IF slot[s].pc = "batchSendMail"
                              /\ slot[t].pc \in {"batchSendMail", "delay"}
                      THEN [slot[t] EXCEPT !.results =
                               Append(@, mine.results[Len(mine.results)])]
                      ELSE slot[t]]
    /\ UNCHANGED <<transporter, rateLimiter>>

\* transporter.sendMail of slot s settles with outcome o
SendMailSettles(s, o) ==
    /\ slot[s].pc \in {"sendMail", "batchSendMail"}
    /\ slot' = [slot EXCEPT ![s] =
                  IF slot[s].pc = "sendMail" THEN SendEmailSettled(@, o)
                  ELSE BatchSendMailSettled(@, o)]
    /\ UNCHANGED <<transporter, rateLimiter>>

\* the inter-item timer of slot s fires
TimerFires(s) ==
    /\ slot[s].pc = "delay"
    /\ slot' = [slot EXCEPT ![s] = BatchTimerFired(@)]
    /\ UNCHANGED <<transporter, rateLimiter>>

\* the window of key k ends, 60 s after its first consume: its record goes
WindowExpires(k) ==
    /\ rateLimiter[k] > 0
    /\ rateLimiter' = [rateLimiter EXCEPT ![k] = 0]
    /\ UNCHANGED <<transporter, slot>>

\* One request of any body, its sends and timers, and the end of the
\* client's window.
FirstRequest == slot[1].pc = "idle" /\ \E r \in Requests : Request(1, "ip1", r)

Next ==
    \/ FirstRequest
    \/ \E o \in Outcomes : SendMailSettles(1, o)
    \/ TimerFires(1)
    \/ WindowExpires("ip1")

Spec == Init /\ [][Next]_vars

\* Request after request of two clients, each request as soon as the last
\* one is answered, drawn from a few bodies of every route.
LimiterRequests ==
    HealthRequests
    \cup { Body("send-email", "a@x.com", "S", m, "absent", <<>>) : m \in {Undef, "M"} }
    \cup { Body("send-batch", Undef, Undef, Undef, "absent", <<>>) }
    \cup { Body("send-batch", Undef, Undef, Undef, "array", a) :
             a \in { <<>>, <<EmailData("object", "a@x.com", "S", "M", Some(1))>> } }

NextLimiter ==
    \/ \E k \in AllClients, r \in LimiterRequests : Request(1, k, r)
    \/ \E o \in Outcomes : SendMailSettles(1, o)
    \/ TimerFires(1)
    \/ \E k \in AllClients : WindowExpires(k)

SpecLimiter == Init /\ [][NextLimiter]_vars


\* Two requests served at once, one per slot, drawn from the batches over a
\* well-formed item, an item without recipient and null, and a single send.
ConcItems ==
    { EmailData("object", t, "S", "M", Some(1)) : t \in {"", "a@x.com"} }
    \cup { EmailData("null", Undef, Undef, Undef, None) }

ConcRequests ==
    { Body("send-email", "a@x.com", "S", "M", "absent", <<>>) }
    \cup { Body("send-batch", Undef, Undef, Undef, "array", a) :
             a \in UNION { [1..n -> ConcItems] : n \in 0..MaxBatch } }

ConcRequest(s) ==
    slot[s].pc = "idle" /\ \E r \in ConcRequests : Request(s, "ip1", r)

NextConc ==
    \/ \E s \in AllSlots : ConcRequest(s)
    \/ \E s \in AllSlots, o \in Outcomes : SendMailSettles(s, o)
    \/ \E s \in AllSlots : TimerFires(s)
    \/ WindowExpires("ip1")

SpecConc == Init /\ [][NextConc]_vars

\* Every sendMail call eventually settles and every timer eventually fires:
\* the transport answers or times out, and the event loop runs due timers.
SendsSettleAndTimersFire ==
    \A s \in AllSlots :
        /\ WF_vars(\E o \in Outcomes : SendMailSettles(s, o))
        /\ WF_vars(TimerFires(s))

SpecConcFair == SpecConc /\ SendsSettleAndTimersFire

-----------------------------------------------------------------------------
(* Vocabulary of the properties *)

\* a field that is missing or empty
Blank(v) == v = Undef \/ v = ""

\* an array element with to_email, subject or message missing or empty
\* (a JSON number has none of them); null is an element of its own kind
LacksField(e) ==
    e.kind /= "null" /\ (Blank(e.to_email) \/ Blank(e.subject) \/ Blank(e.message))

\* an array element with the three fields as non-empty strings
WellFormedItem(e) ==
    /\ e.kind = "object"
    /\ ~Blank(e.to_email) /\ ~Blank(e.subject) /\ ~Blank(e.message)
    /\ e.message /= NonString

\* slot sl holds an admitted batch request with an emails array, the
\* transport being configured: the request that enters the item loop
InBatch(sl) ==
    /\ sl.pc /= "idle" /\ ~sl.rejected
    /\ sl.req.route = "send-batch" /\ sl.req.emailsKind = "array"
    /\ transporter

\* the calls to transporter.sendMail made for item j
CallsFor(sl, j) == { n \in 1..Len(sl.calls) : sl.calls[n].item = j }

\* r is the outcome of element e, processed as item j of sl's batch
IsOutcomeOf(r, e, sl, j) ==
    \/ /\ LacksField(e)
       /\ ~r.success /\ r.message = "Missing required fields"
    \/ /\ ~LacksField(e)
       /\ \/ \E n \in CallsFor(sl, j) :
                /\ sl.calls[n].settled = "ok"
                /\ r.success /\ r.messageId = sl.calls[n].value
          \/ ~r.success /\ r.message /= "Missing required fields"

\* the item loop of sl's batch stopped, if it did, only at the end of the
\* array or at a null element
StoppedOnlyAtEndOrNull(sl) ==
    sl.pc = "responded" =>
        \/ Len(sl.results) = Len(sl.req.emails)
        \/ sl.req.emails[Len(sl.results) + 1].kind = "null"

-----------------------------------------------------------------------------
(* Properties *)

\* C1: the response to an admitted batch request with an emails array of N
\* items, the transport configured, carries a results list of exactly N
\* entries, the i-th being the outcome of the i-th item, whatever the items.
C1_ResultsMatchInput ==
    \A s \in AllSlots :
        LET sl == slot[s] IN
        (InBatch(sl) /\ sl.pc = "responded") =>
            /\ sl.response.results /= None
            /\ LET rs == sl.response.results[1] IN
               /\ Len(rs) = Len(sl.req.emails)
               /\ \A j \in 1..Len(rs) : IsOutcomeOf(rs[j], sl.req.emails[j], sl, j)

\* C2: every result of a batch echoes the index its item supplies, 0
\* included, on every path, and is -1 only when the item supplies none.
C2_IndexEchoed ==
    \A s \in AllSlots :
        LET sl == slot[s] IN
        InBatch(sl) =>
            \A j \in 1..Len(sl.results) :
                LET index == sl.req.emails[j].index IN
                /\ index /= None => sl.results[j].index = index[1]
                /\ sl.results[j].index = -1 => index = None

WellFormedBody(r) ==
    /\ ~Blank(r.to_email) /\ ~Blank(r.subject) /\ ~Blank(r.message)
    /\ r.message /= NonString

\* slot sl was answered with the 429 throttled response
Throttled(sl) ==
    /\ sl.pc = "responded" /\ sl.response.status = 429 /\ ~sl.response.success
    /\ sl.response.message = "Too many requests, please try again later."

\* C5: a request of client k is throttled (429) exactly when k has made
\* `points` or more requests in its current window, whatever the other
\* clients have consumed; it counts against k alone; a window that has ended
\* leaves k with nothing consumed, so k's next request is admitted.
C5_QuotaPerWindow ==
    [][\A s \in AllSlots, k \in AllClients :
          /\ (slot'[s].pc /= "idle" /\ Request(s, k, slot'[s].req)) =>
                /\ Throttled(slot'[s]) <=> rateLimiter[k] >= points
                /\ rateLimiter'[k] = rateLimiter[k] + 1
                /\ \A k2 \in AllClients \ {k} : rateLimiter'[k2] = rateLimiter[k2]
          /\ WindowExpires(k) =>
                /\ rateLimiter'[k] = 0
                /\ \A k2 \in AllClients \ {k} : rateLimiter'[k2] = rateLimiter[k2]
      ]_vars

\* C5 witness: a client is throttled on its (points+1)-th request while the
\* other client, within quota, has just been admitted before it
C5_Witness ==
    /\ rateLimiter["ip1"] = points + 1
    /\ rateLimiter["ip2"] \in 1..points
    /\ Throttled(slot[1])

\* C6: a request the rate limiter rejected is answered 429 and never
\* reaches a handler: no sendMail call is made on its behalf, whichever
\* route it targets.
C6_RejectedNeverSends ==
    \A s \in AllSlots :
        LET sl == slot[s] IN
        (sl.rejected \/ sl.response.status = 429) =>
            /\ Throttled(sl)
            /\ sl.calls = <<>>
            /\ sl.results = <<>>

\* C6 witness: a rejected batch request whose one item is well-formed
C6_Witness ==
    \E s \in AllSlots :
        LET sl == slot[s] IN
        /\ sl.rejected /\ Throttled(sl)
        /\ sl.req.route = "send-batch" /\ sl.req.emailsKind = "array"
        /\ transporter
        /\ Len(sl.req.emails) = 1 /\ WellFormedItem(sl.req.emails[1])

\* C7: an admitted single-send request that lacks to_email, subject or
\* message is answered 400 with success=false and no sendMail call is
\* made, with the transport configured or not.
C7_SingleSendValidation ==
    \A s \in AllSlots :
        LET sl == slot[s] IN
        ( /\ sl.pc /= "idle" /\ ~sl.rejected /\ sl.req.route = "send-email"
          /\ (Blank(sl.req.to_email) \/ Blank(sl.req.subject) \/ Blank(sl.req.message)) )
        => /\ sl.pc = "responded"
           /\ sl.response.status = 400 /\ ~sl.response.success
           /\ sl.calls = <<>>

\* C7 witness: a request with only the subject empty, answered while the
\* transport is not configured
C7_Witness ==
    \E s \in AllSlots :
        LET sl == slot[s] IN
        /\ sl.pc = "responded" /\ ~sl.rejected /\ sl.req.route = "send-email"
        /\ ~Blank(sl.req.to_email) /\ sl.req.subject = "" /\ ~Blank(sl.req.message)
        /\ ~transporter

\* C8: with no transporter, an admitted well-formed single-send request and
\* an admitted batch request with an emails array (any content) are answered
\* success=false, "Email service is not configured on the server", by the
\* handler's own check, with no sendMail call.
C8_UnconfiguredRejects ==
    ~transporter =>
        \A s \in AllSlots :
            LET sl == slot[s] IN
            ( /\ sl.pc /= "idle" /\ ~sl.rejected
              /\ \/ sl.req.route = "send-email" /\ WellFormedBody(sl.req)
                 \/ sl.req.route = "send-batch" /\ sl.req.emailsKind = "array" )
            => /\ sl.pc = "responded"
               /\ sl.response =
                     Json(500, FALSE, "Email service is not configured on the server")
               /\ sl.calls = <<>>

\* C8 witness: a batch with a null element and a well-formed item answered
\* while no transporter exists
C8_Witness ==
    /\ ~transporter
    /\ \E s \in AllSlots :
          LET sl == slot[s] IN
          /\ sl.pc = "responded" /\ ~sl.rejected
          /\ sl.req.route = "send-batch" /\ sl.req.emailsKind = "array"
          /\ Len(sl.req.emails) = 2
          /\ sl.req.emails[1].kind = "null" /\ WellFormedItem(sl.req.emails[2])

\* C9: an admitted well-formed single-send request, the transport
\* configured, makes exactly one sendMail call; once it settles the response
\* is success=true with the transport's messageId when it resolved, and
\* success=false with "Failed to send email: " + error text when it rejected.
C9_SingleSendMapsResult ==
    transporter =>
        \A s \in AllSlots :
            LET sl == slot[s] IN
            ( /\ sl.pc /= "idle" /\ ~sl.rejected
              /\ sl.req.route = "send-email" /\ WellFormedBody(sl.req) )
            => /\ Len(sl.calls) = 1
               /\ sl.calls[1].to = sl.req.to_email
               /\ sl.pc = "sendMail" <=> sl.calls[1].settled = "pending"
               /\ sl.calls[1].settled = "ok" =>
                     /\ sl.pc = "responded"
                     /\ sl.response.success /\ sl.response.status = 200
                     /\ sl.response.messageId = sl.calls[1].value
               /\ sl.calls[1].settled = "err" =>
                     /\ sl.pc = "responded"
                     /\ ~sl.response.success
                     /\ sl.response.message =
                            "Failed to send email: " \o sl.calls[1].value

\* C9 witness: a single send answered after the transport rejected it
C9_Witness ==
    \E s \in AllSlots :
        LET sl == slot[s] IN
        /\ sl.pc = "responded" /\ sl.req.route = "send-email"
        /\ Len(sl.calls) = 1 /\ sl.calls[1].settled = "err"

\* C10: a batch whose item loop completed is answered success=true with the
\* results list of the loop, whatever the results are.
C10_BatchSuccessRegardless ==
    \A s \in AllSlots :
        LET sl == slot[s] IN
        ( /\ InBatch(sl) /\ sl.pc = "responded"
          /\ Len(sl.results) = Len(sl.req.emails) )
        => /\ sl.response.success /\ sl.response.status = 200
           /\ sl.response.results = Some(sl.results)

\* C10 witness: a completed batch of two items, one failing validation and
\* one whose send failed
C10_Witness ==
    \E s \in AllSlots :
        LET sl == slot[s] IN
        /\ InBatch(sl) /\ sl.pc = "responded"
        /\ Len(sl.results) = 2 /\ Len(sl.req.emails) = 2
        /\ \A j \in 1..2 : ~sl.results[j].success
        /\ Len(sl.calls) = 1 /\ sl.calls[1].settled = "err"
        /\ sl.response.success

\* the items of sl's batch after which the inter-item delay was taken
Delayed(sl) == { sl.delays[n] : n \in 1..Len(sl.delays) }

\* the calls to transporter.sendMail of sl still in flight
InFlight(sl) == { n \in 1..Len(sl.calls) : sl.calls[n].settled = "pending" }

\* C11: in a batch the inter-item delay is taken after every sendMail call
\* that has settled, resolved or rejected, and never after an item that
\* failed validation.
C11_DelayAfterEverySend ==
    \A s \in AllSlots :
        LET sl == slot[s] IN
        InBatch(sl) =>
            /\ \A n \in 1..Len(sl.calls) :
                  sl.calls[n].settled /= "pending" => sl.calls[n].item \in Delayed(sl)
            /\ \A j \in Delayed(sl) : ~LacksField(sl.req.emails[j])

\* C13: within one batch at most one sendMail call is in flight, the calls
\* are made in the order of the items, and the call for an item is made
\* only when every item before it has its result in the results list.
C13_SequentialDispatch ==
    \A s \in AllSlots :
        LET sl == slot[s] IN
        InBatch(sl) =>
            /\ Cardinality(InFlight(sl)) <= 1
            /\ \A n \in 1..Len(sl.calls) :
                  /\ n > 1 => sl.calls[n - 1].item < sl.calls[n].item
                  /\ n < Len(sl.calls) => sl.calls[n].settled /= "pending"
                  /\ sl.calls[n].settled = "pending"
                        => Len(sl.results) = sl.calls[n].item - 1
                  /\ sl.calls[n].settled /= "pending"
                        => Len(sl.results) >= sl.calls[n].item

\* C13 witness: the call for the second item is in flight, the first item's
\* call has settled and its result is in the list
C13_Witness ==
    \E s \in AllSlots :
        LET sl == slot[s] IN
        /\ InBatch(sl) /\ sl.pc = "batchSendMail"
        /\ Len(sl.calls) = 2 /\ sl.calls[2].item = 2
        /\ sl.calls[1].settled /= "pending" /\ sl.calls[2].settled = "pending"
        /\ Len(sl.results) = 1

\* C15: a batch element that is not an object with the three fields (null,
\* a number) is a malformed item like any other: the batch is answered with
\* the success=true outcome, never a 500, every item has its result and the
\* element's result is a failure in its position.
C15_NonObjectItemHandled ==
    \A s \in AllSlots :
        LET sl == slot[s] IN
        (InBatch(sl) /\ sl.pc = "responded") =>
            /\ sl.response.status = 200 /\ sl.response.success
            /\ sl.response.results = Some(sl.results)
            /\ Len(sl.results) = Len(sl.req.emails)
            /\ \A j \in 1..Len(sl.req.emails) :
                  sl.req.emails[j].kind /= "object" =>
                     /\ ~sl.results[j].success
                     /\ sl.results[j].message = "Missing required fields"

\* a request of client k arrives in slot s in this step
Arrives(s, k) == slot'[s].pc /= "idle" /\ Request(s, k, slot'[s].req)

\* this step leaves every slot but s as it is
OthersUntouched(s) == \A t \in AllSlots \ {s} : slot'[t] = slot[t]

\* C12: handling GET /api/health reports emailConfigured=true exactly when
\* a transporter exists and has no side effect: no sendMail call, and all
\* shared state, the rate limiter's counters included, is left unchanged.
C12_HealthNoSideEffects ==
    [][\A s \in AllSlots, k \in AllClients :
          (Arrives(s, k) /\ slot'[s].req.route = "health") =>
             /\ slot'[s].response.emailConfigured = Some(transporter)
             /\ slot'[s].calls = <<>>
             /\ rateLimiter' = rateLimiter
             /\ transporter' = transporter
             /\ OthersUntouched(s)
      ]_vars

\* C12 as amended: a GET /api/health that the rate limiter admits reports
\* emailConfigured=true exactly when a transporter exists; a health request
\* makes no sendMail call and leaves the transporter and every other request
\* as they are, but like every request it consumes one point of its client's
\* window (and is answered 429 when the client is over quota).
C12_HealthConsumesOnePoint ==
    [][\A s \in AllSlots, k \in AllClients :
          (Arrives(s, k) /\ slot'[s].req.route = "health") =>
             /\ Throttled(slot'[s]) <=> rateLimiter[k] >= points
             /\ ~Throttled(slot'[s]) =>
                   /\ slot'[s].pc = "responded"
                   /\ slot'[s].response.status = 200 /\ slot'[s].response.success
                   /\ slot'[s].response.emailConfigured = Some(transporter)
             /\ slot'[s].calls = <<>>
             /\ rateLimiter' = [rateLimiter EXCEPT ![k] = @ + 1]
             /\ transporter' = transporter
             /\ OthersUntouched(s)
      ]_vars

\* C12 witness: a health check answered emailConfigured=false, counted
\* against its client
C12_Witness ==
    /\ ~transporter
    /\ rateLimiter["ip1"] = 1 /\ rateLimiter["ip2"] = 0
    /\ slot[1].pc = "responded" /\ slot[1].req.route = "health"
    /\ slot[1].response.emailConfigured = Some(FALSE)

\* a request body whose shape its handler refuses: a single send lacking a
\* field, a batch whose emails is absent or not an array
BadShape(r) ==
    \/ /\ r.route = "send-email"
       /\ Blank(r.to_email) \/ Blank(r.subject) \/ Blank(r.message)
    \/ r.route = "send-batch" /\ r.emailsKind /= "array"

\* slot sl was answered by the handler's transporter check
AnsweredNotConfigured(sl) ==
    /\ sl.pc = "responded"
    /\ sl.response = Json(500, FALSE, "Email service is not configured on the server")

\* C18: the first failing check decides a request's outcome, in the order
\* rate limit, shape of the request, transporter, dispatch: over quota it is
\* answered 429 whatever its body; else a body of the wrong shape is answered
\* 400, with or without a transporter; else a send request without a
\* transporter is answered 500 not-configured; only else are sends made.
C18_FirstFailingCheckDecides ==
    [][\A s \in AllSlots, k \in AllClients :
          Arrives(s, k) =>
             LET sl == slot'[s] IN
             IF rateLimiter[k] >= points
             THEN Throttled(sl) /\ sl.calls = <<>>
             ELSE IF BadShape(sl.req)
             THEN /\ sl.pc = "responded"
                  /\ sl.response.status = 400 /\ ~sl.response.success
                  /\ sl.calls = <<>>
             ELSE IF sl.req.route /= "health" /\ ~transporter
             THEN AnsweredNotConfigured(sl) /\ sl.calls = <<>>
             ELSE /\ ~Throttled(sl) /\ ~AnsweredNotConfigured(sl)
                  /\ sl.response.status /= 400
                  /\ (sl.req.route = "send-email" /\ WellFormedBody(sl.req))
                        => Len(sl.calls) = 1
      ]_vars

\* C18 witness: a single send lacking its message, over quota and without
\* a transporter, answered 429
C18_Witness ==
    \E s \in AllSlots :
        /\ Throttled(slot[s]) /\ ~transporter
        /\ slot[s].req.route = "send-email" /\ BadShape(slot[s].req)

\* slot sl holds a batch that is inside its item loop, at one of its awaits
InLoop(sl) == InBatch(sl) /\ sl.pc \in {"batchSendMail", "delay"}

\* C14: of two batches served concurrently, the one that has started its
\* item loop finishes it before the other dispatches anything: never are two
\* batches inside their item loops at once.
C14_BatchesNeverInterleave ==
    \A s, t \in AllSlots : (InLoop(slot[s]) /\ InLoop(slot[t])) => s = t

\* C14 as amended: two batches served concurrently can both be inside their
\* item loops (each await yields to the other, so their sends may
\* interleave); every step advances one request only and leaves the other
\* one's position, results and calls as they are, and each batch makes its
\* own calls in item order, one at a time.
C14_BatchesIndependent ==
    /\ [][\A s \in AllSlots : slot'[s] /= slot[s] => OthersUntouched(s)]_vars
    /\ [](\A s \in AllSlots :
            InBatch(slot[s]) =>
               /\ Cardinality(InFlight(slot[s])) <= 1
               /\ Len(slot[s].results) <= Len(slot[s].req.emails)
               /\ \A n \in 1..Len(slot[s].calls) :
                     /\ n > 1 => slot[s].calls[n - 1].item < slot[s].calls[n].item
                     /\ slot[s].calls[n].settled /= "pending"
                           => \/ /\ slot[s].calls[n].settled = "ok"
                                 /\ slot[s].results[slot[s].calls[n].item].success
                              \/ /\ slot[s].calls[n].settled = "err"
                                 /\ ~slot[s].results[slot[s].calls[n].item].success)

\* C14 witness: both batches are inside their loops, each with a call made:
\* the first awaits its timer after a send, the second awaits its send
C14_Witness ==
    /\ InLoop(slot[1]) /\ InLoop(slot[2])
    /\ slot[1].pc = "delay" /\ Len(slot[1].calls) = 1
    /\ slot[2].pc = "batchSendMail" /\ Len(slot[2].calls) = 1
    /\ Len(slot[1].req.emails) = 2 /\ Len(slot[2].req.emails) = 2

\* the positions of the well-formed items of sl's batch
WellFormedItems(sl) ==
    { j \in 1..Len(sl.req.emails) : WellFormedItem(sl.req.emails[j]) }

\* C16: sendMail is called exactly once per well-formed message: no item
\* and no single send ever has more than one call (a rejected call is not
\* repeated); an answered batch has made one call for each of its
\* well-formed items and none for the others; and an answered well-formed
\* single send has made its own call, also when the same request is being
\* served in the other slot.
C16_OneSendPerMessage ==
    \A s \in AllSlots :
        LET sl == slot[s] IN
        /\ InBatch(sl) =>
              /\ \A j \in 1..Len(sl.req.emails) : Cardinality(CallsFor(sl, j)) <= 1
              /\ sl.pc = "responded" =>
                    \A j \in 1..Len(sl.req.emails) :
                       Cardinality(CallsFor(sl, j)) =
                          IF j \in WellFormedItems(sl) THEN 1 ELSE 0
        /\ ( /\ sl.pc /= "idle" /\ ~sl.rejected /\ transporter
             /\ sl.req.route = "send-email" /\ WellFormedBody(sl.req) )
           => Len(sl.calls) = 1

\* every batch that entered its item loop is eventually answered
EventuallyAnswered ==
    \A s \in AllSlots : InBatch(slot[s]) ~> (slot[s].pc = "responded")

\* an answered request stays as answered: it gets no second response
AnsweredOnce ==
    [][\A s \in AllSlots : slot[s].pc = "responded" => slot'[s] = slot[s]]_vars

\* no step takes a batch out of its loop other than its own response, and
\* none takes a result away from it
NeverCancelled ==
    [][\A s \in AllSlots :
          InBatch(slot[s]) =>
             /\ InBatch(slot'[s])
             /\ Len(slot'[s].results) >= Len(slot[s].results)
             /\ slot'[s].req = slot[s].req
      ]_vars

\* C17: a batch that has begun runs to completion: every admitted batch is
\* eventually answered, exactly once, only after every one of its items has
\* been processed, and nothing else the server handles cancels it.
C17_BatchRunsToCompletion ==
    /\ EventuallyAnswered
    /\ AnsweredOnce
    /\ NeverCancelled
    /\ [](\A s \in AllSlots :
            (InBatch(slot[s]) /\ slot[s].pc = "responded") =>
               Len(slot[s].results) = Len(slot[s].req.emails))

====
